---- MODULE Spec2Model ----
(***************************************************************************)
(* EBS volume swap with snapshot (src/ec2ebs/EBSVolumeSwapWithSnap.py).    *)
(*                                                                         *)
(* main() resolves the eligible volumes of one instance, then runs one     *)
(* snapshot_and_swap worker per volume on a thread pool sized to the       *)
(* volume count.  The cloud (EC2) and the two DynamoDB audit tables are    *)
(* the environment: every remote call either is accepted or raises, every  *)
(* waiter either sees the required status or raises WaiterError.           *)
(*                                                                         *)
(* Strings that the program parses (the volume filter, volume ids) are     *)
(* sequences of one-character strings; strings it only passes on (device   *)
(* names, states) are TLA+ strings.                                        *)
(***************************************************************************)
EXTENDS Integers, Sequences, FiniteSets, TLC

VARIABLES
    volume_ids_csv, \* the third CLI argument (line 22)
    mappings,       \* BlockDeviceMappings of the instance when main() starts
    main_pc,        \* position of main(): "start", "running", "done"
    exit_code,      \* exit status of the process, -1 while it runs
    lookup,         \* outcome of the locator's describe_instances: "none", "ok", "error"
    all_volumes,    \* main()'s all_volumes: sequence of [volume_id, device_name]
    pc,             \* pc[w]: the next call of worker w, or "SUCCESS" / "FAILED"
    fail,           \* fail[w]: [step, kind] of the exception that ended worker w
    snapshot_id,    \* local snapshot_id of worker w (<<>> while unset)
    new_volume_id,  \* local new_volume_id of worker w (<<>> while unset)
    snapshots,      \* EC2: the snapshots created so far, in creation order
    volumes,        \* EC2: volume id -> [State, Device, Snapshot, Name]
    old_table,      \* DynamoDB EBSVolumeSwapBeforeSnapshot: set of items
    new_table,      \* DynamoDB EBSVolumeSwapApplySnapshot: set of items
    audit_errors,   \* "[ERROR] Failed to log ..." lines: set of <<w, table>>
    attach_calls,   \* EC2: the attach_volume requests received, accepted or not
    tag_call,       \* one call of merge_tags: [base_tags, new_tags, result, done]
    config,         \* EC2: volume id -> the attributes volume.load() fetches
    captured,       \* captured[w]: worker w's locals az, size, iops, ... (lines 166-173)
    create_calls    \* EC2: the create_volume requests accepted

vars == <<volume_ids_csv, mappings, main_pc, exit_code, lookup, all_volumes,
          pc, fail, snapshot_id, new_volume_id, snapshots, volumes,
          old_table, new_table, audit_errors, attach_calls, tag_call,
          config, captured, create_calls>>

workerVars == <<pc, fail, snapshot_id, new_volume_id>>
cloudVars == <<snapshots, volumes, attach_calls>>
auditVars == <<old_table, new_table, audit_errors>>
inputVars == <<volume_ids_csv, mappings, tag_call>>
mainVars == <<main_pc, exit_code, lookup, all_volumes>>
configVars == <<config, captured, create_calls>>

----------------------------------------------------------------------------
(* Bounds of the model. *)

\* longest volume filter drawn for the locator alone
MaxCsvLen == 3
\* longest volume filter drawn for a whole run
MaxRunCsvLen == 3
\* most block device mappings of the instance
MaxMappings == 3
\* most tags in an argument of merge_tags
MaxTags == 2

----------------------------------------------------------------------------
(* Strings. *)

Whitespace == {" "}

IdChars == <<"1", "2", "3", "4", "5", "6", "7", "8", "9">>

\* the sentinel main() compares the filter with (line 264)
AllVolumes == <<"A", "l", "l", "V", "o", "l", "u", "m", "e", "s">>

\* the literal "all"
AllLiteral == <<"a", "l", "l">>

None == <<>>

RECURSIVE lstrip(_)
lstrip(s) ==
    IF s = <<>> THEN <<>>
    ELSE IF Head(s) \in Whitespace THEN lstrip(Tail(s)) ELSE s

RECURSIVE rstrip(_)
rstrip(s) ==
    IF s = <<>> THEN <<>>
    ELSE IF s[Len(s)] \in Whitespace THEN rstrip(SubSeq(s, 1, Len(s) - 1)) ELSE s

\* str.strip()
strip(s) == rstrip(lstrip(s))

\* str.split(sep): the pieces between the separators, empty pieces kept
RECURSIVE split(_, _)
split(s, sep) ==
    IF \A i \in 1..Len(s) : s[i] # sep THEN <<s>>
    ELSE LET i == CHOOSE k \in 1..Len(s) :
                      s[k] = sep /\ \A j \in 1..(k - 1) : s[j] # sep
         IN  <<SubSeq(s, 1, i - 1)>> \o split(SubSeq(s, i + 1, Len(s)), sep)

SeqToSet(s) == {s[i] : i \in 1..Len(s)}

\* line 114: [v.strip() for v in volume_ids_csv.strip().split("|") if v.strip()]
parse_volume_ids(csv) ==
    LET parts == split(strip(csv), "|")
        kept == SelectSeq(parts, LAMBDA v : strip(v) # <<>>)
    IN  [i \in 1..Len(kept) |-> strip(kept[i])]

----------------------------------------------------------------------------
(* merge_tags, lines 106-110.  A dict is the sequence of its items in      *)
(* insertion order, each key once.                                         *)

Tag(k, v) == [Key |-> k, Value |-> v]

\* tag_dict[k] = v: a key already there keeps its place and takes the value
dict_set(d, k, v) ==
    IF \E i \in 1..Len(d) : d[i].Key = k
    THEN [i \in 1..Len(d) |-> IF d[i].Key = k THEN Tag(k, v) ELSE d[i]]
    ELSE Append(d, Tag(k, v))

\* lines 107-109: the assignments tag_dict[tag["Key"]] = tag["Value"], in order
RECURSIVE dict_update(_, _)
dict_update(d, tags) ==
    IF tags = <<>> THEN d
    ELSE dict_update(dict_set(d, Head(tags).Key, Head(tags).Value), Tail(tags))

\* merge_tags with the two arguments applied in the other order
merge_tags_base_wins(base_tags, new_tags) ==
    dict_update(dict_update(<<>>, new_tags), base_tags)

\* lines 106-110
merge_tags(base_tags, new_tags) ==
    dict_update(dict_update(<<>>, base_tags), new_tags)

----------------------------------------------------------------------------
(* The locator. *)

EXCLUDE_DEVICES == {"/dev/sda1", "/dev/xvda"}

DataDevices == {"/dev/sdf", "/dev/sdg"}

Devices == EXCLUDE_DEVICES \cup DataDevices

VolumeRef(mapping) ==
    [volume_id |-> mapping.VolumeId, device_name |-> mapping.DeviceName]

\* lines 123 and 145 with the exclusion test dropped
keep_any_device(device) == TRUE

\* lines 123 and 145: device not in EXCLUDE_DEVICES
not_excluded(device) == device \notin EXCLUDE_DEVICES

\* lines 135-151, the lookup having succeeded
get_attached_volumes(m) ==
    LET kept == SelectSeq(m, LAMBDA mp : not_excluded(mp.DeviceName))
    IN  [i \in 1..Len(kept) |-> VolumeRef(kept[i])]

\* the attachments gathered id by id, in the filter's order
RECURSIVE gather_by_id(_, _)
gather_by_id(m, ids) ==
    IF ids = <<>> THEN <<>>
    ELSE LET kept == SelectSeq(m, LAMBDA mp : /\ not_excluded(mp.DeviceName)
                                              /\ mp.VolumeId = Head(ids))
         IN  [i \in 1..Len(kept) |-> VolumeRef(kept[i])] \o gather_by_id(m, Tail(ids))

\* the filtered locator looping over the filter's ids instead of the attachments
get_filtered_in_filter_order(m, csv) == gather_by_id(m, parse_volume_ids(csv))

\* lines 112-129, the lookup having succeeded
get_filtered_attached_volumes(m, csv) ==
    LET volume_ids == SeqToSet(parse_volume_ids(csv))
        kept == SelectSeq(m, LAMBDA mp : /\ not_excluded(mp.DeviceName)
                                         /\ mp.VolumeId \in volume_ids)
    IN  [i \in 1..Len(kept) |-> VolumeRef(kept[i])]

\* line 264 with "all" as the sentinel
use_filter_all_literal(csv) ==
    csv # <<>> /\ csv # AllLiteral /\ strip(csv) # <<>>

\* line 264: volume_ids_csv and volume_ids_csv != "AllVolumes" and volume_ids_csv.strip()
use_filter(csv) ==
    csv # <<>> /\ csv # AllVolumes /\ strip(csv) # <<>>

\* the locator returning what it can although the lookup raised
locate_despite_error(m, csv, ok) ==
    IF use_filter(csv) THEN get_filtered_attached_volumes(m, csv)
    ELSE get_attached_volumes(m)

\* lines 264-269; ok = FALSE: describe_instances raised ClientError (131-133, 153-155)
locate(m, csv, ok) ==
    IF ~ok THEN <<>>
    ELSE IF use_filter(csv) THEN get_filtered_attached_volumes(m, csv)
    ELSE get_attached_volumes(m)

----------------------------------------------------------------------------
(* Inputs. *)

CsvChars == {"1", "2", "|", " "}

\* a whole run draws its filter without blanks
RunCsvChars == {"1", "2", "|"}

Csvs(chars, n) ==
    UNION {[1..k -> chars] : k \in 0..n} \cup {AllVolumes, AllLiteral}

\* the k-th attachment holds volume "k"; the devices are distinct
Layout(ds) ==
    [i \in 1..Len(ds) |-> [DeviceName |-> ds[i], VolumeId |-> <<IdChars[i]>>]]

Layouts ==
    {Layout(ds) : ds \in {x \in UNION {[1..k -> Devices] : k \in 0..MaxMappings} :
                              \A i, j \in 1..Len(x) : i # j => x[i] # x[j]}}

NoFail == [step |-> "none", kind |-> "none"]

\* the locals of lines 166-173 before they are assigned
NoCapture ==
    [availability_zone |-> "none", size |-> 0, iops |-> 0, throughput |-> 0,
     volume_type |-> "none", encrypted |-> FALSE, kms_key_id |-> None,
     tags |-> <<>>]

\* what EC2 holds besides size and performance; a key id only when encrypted
Placements ==
    {[availability_zone |-> "a", volume_type |-> "gp2", encrypted |-> FALSE,
      kms_key_id |-> None, tags |-> <<>>],
     [availability_zone |-> "b", volume_type |-> "gp3", encrypted |-> TRUE,
      kms_key_id |-> <<"k">>,
      tags |-> <<Tag("Name", <<"d">>), Tag("Env", <<"p">>)>>]}

\* the attributes of a volume as describe_volumes returns them; Iops and
\* Throughput are absent (None) for the types that have none
Configs ==
    {[availability_zone |-> p.availability_zone, size |-> s, iops |-> i,
      throughput |-> t, volume_type |-> p.volume_type,
      encrypted |-> p.encrypted, kms_key_id |-> p.kms_key_id, tags |-> p.tags] :
        s \in {1, 2}, i \in {None, <<0>>, <<3>>}, t \in {None, <<4>>},
        p \in Placements}

\* the volumes of a run that is not about their attributes: all alike
PlainConfig ==
    [availability_zone |-> "a", size |-> 1, iops |-> None, throughput |-> None,
     volume_type |-> "gp2", encrypted |-> FALSE, kms_key_id |-> None,
     tags |-> <<>>]

PlainVolumes ==
    /\ config = [v \in {mappings[i].VolumeId : i \in 1..Len(mappings)} |-> PlainConfig]

InitRest ==
    /\ main_pc = "start"
    /\ exit_code = -1
    /\ lookup = "none"
    /\ all_volumes = <<>>
    /\ pc = <<>>
    /\ fail = <<>>
    /\ snapshot_id = <<>>
    /\ new_volume_id = <<>>
    /\ snapshots = <<>>
    /\ volumes = [v \in {mappings[i].VolumeId : i \in 1..Len(mappings)} |->
                    LET i == CHOOSE k \in 1..Len(mappings) : mappings[k].VolumeId = v
                    IN  [State |-> "in-use", Device |-> mappings[i].DeviceName,
                         Snapshot |-> None, Name |-> None]]
    /\ old_table = {}
    /\ new_table = {}
    /\ audit_errors = {}
    /\ attach_calls = {}
    /\ captured = <<>>
    /\ create_calls = {}

TagKeys == {"Name", "Env"}

TagValues == {"Old", "New"}

TagLists ==
    UNION {[1..k -> {Tag(key, v) : key \in TagKeys, v \in TagValues}] : k \in 0..MaxTags}

NoTagCall ==
    [base_tags |-> <<>>, new_tags |-> <<>>, result |-> <<>>, done |-> FALSE]

Init ==
    /\ volume_ids_csv \in Csvs(RunCsvChars, MaxRunCsvLen)
    /\ mappings \in Layouts
    /\ tag_call = NoTagCall
    /\ PlainVolumes
    /\ InitRest

InitLocate ==
    /\ volume_ids_csv \in Csvs(CsvChars, MaxCsvLen)
    /\ mappings \in Layouts
    /\ tag_call = NoTagCall
    /\ PlainVolumes
    /\ InitRest

\* the runs checked for termination select every data volume
InitLive ==
    /\ volume_ids_csv = AllVolumes
    /\ mappings \in Layouts
    /\ tag_call = NoTagCall
    /\ PlainVolumes
    /\ InitRest

InitTags ==
    /\ volume_ids_csv = <<>>
    /\ mappings = <<>>
    /\ tag_call \in {[base_tags |-> b, new_tags |-> n, result |-> <<>>, done |-> FALSE] :
                        b \in TagLists, n \in TagLists}
    /\ PlainVolumes
    /\ InitRest

\* one data volume with any attributes, selected by the default filter
InitConfig ==
    /\ volume_ids_csv = AllVolumes
    /\ mappings = Layout(<<"/dev/sdf">>)
    /\ tag_call = NoTagCall
    /\ config \in [{mappings[1].VolumeId} -> Configs]
    /\ InitRest

\* one call merge_tags(base_tags, new_tags)
MergeTags ==
    /\ ~tag_call.done
    /\ tag_call' = [tag_call EXCEPT
           !.result = merge_tags(tag_call.base_tags, tag_call.new_tags),
           !.done = TRUE]
    /\ UNCHANGED <<volume_ids_csv, mappings, mainVars, workerVars, cloudVars, auditVars,
                   configVars>>

----------------------------------------------------------------------------
(* main(), lines 259-287. *)

Workers == DOMAIN pc

\* lines 264-282: resolve the volumes; none: return (275); else submit one
\* snapshot_and_swap per volume to the pool
Locate ==
    /\ main_pc = "start"
    /\ \E ok \in BOOLEAN :
         LET found == locate(mappings, volume_ids_csv, ok)
             n == Len(found)
         IN  /\ lookup' = IF ok THEN "ok" ELSE "error"
             /\ all_volumes' = found
             /\ IF found = <<>>
                THEN /\ main_pc' = "done"
                     /\ exit_code' = 0
                     /\ UNCHANGED <<workerVars, captured>>
                ELSE /\ main_pc' = "running"
                     /\ exit_code' = exit_code
                     /\ pc' = [w \in 1..n |-> "load"]
                     /\ fail' = [w \in 1..n |-> NoFail]
                     /\ snapshot_id' = [w \in 1..n |-> None]
                     /\ new_volume_id' = [w \in 1..n |-> None]
                     /\ captured' = [w \in 1..n |-> NoCapture]
    /\ UNCHANGED <<inputVars, config, create_calls, cloudVars, auditVars>>

\* lines 282-287: executor.map's results are never read, so the SystemExit a
\* worker raised stays in its future; main() returns and the process ends 0
main_exit_code == 0

\* lines 281-287: the with-block's shutdown(wait=True) returns once every
\* worker has ended, then main() returns
Join ==
    /\ main_pc = "running"
    /\ \A w \in Workers : pc[w] \in {"SUCCESS", "FAILED"}
    /\ main_pc' = "done"
    /\ exit_code' = main_exit_code
    /\ UNCHANGED <<inputVars, configVars, lookup, all_volumes, workerVars, cloudVars, auditVars>>

----------------------------------------------------------------------------
(* snapshot_and_swap(volume_info), lines 158-255: one worker per volume. *)

\* lines 159-160
volume_id(w) == all_volumes[w].volume_id
device_name(w) == all_volumes[w].device_name

\* the ids EC2 hands out
SnapshotIdOf(k) == <<"s", IdChars[k]>>
NewVolumeIdOf(k) == <<"n", IdChars[k]>>

SnapshotIndex(sid) == CHOOSE k \in 1..Len(snapshots) : snapshots[k].SnapshotId = sid

SnapshotOf(sid) == snapshots[SnapshotIndex(sid)]

\* the calls of snapshot_and_swap in program order
Steps == <<"load", "describe", "create_snapshot", "wait_snapshot", "tag_snapshot",
           "record_old", "create_volume", "wait_volume", "record_new", "detach",
           "wait_detach", "attach", "tag_old", "SUCCESS">>

StepIndex(step) == CHOOSE k \in 1..Len(Steps) : Steps[k] = step

\* lines 247-255: every except clause ends in sys.exit(1), which raises
\* SystemExit in the worker's thread only; the pool stores it in the future
Raise(w, step, kind) ==
    /\ pc' = [pc EXCEPT ![w] = "FAILED"]
    /\ fail' = [fail EXCEPT ![w] = [step |-> step, kind |-> kind]]

Goto(w, next) ==
    /\ pc' = [pc EXCEPT ![w] = next]
    /\ fail' = fail

\* Python's `x or 0` for an optional number: None and 0 both give 0
or_zero(x) == IF x = None \/ x = <<0>> THEN 0 ELSE x[1]

\* lines 166-173: the locals read from the loaded volume; an absent
\* throughput attribute (getattr's default) reads like None
read_attributes(c) ==
    [availability_zone |-> c.availability_zone,
     size |-> c.size,
     iops |-> or_zero(c.iops),
     throughput |-> or_zero(c.throughput),
     volume_type |-> c.volume_type,
     encrypted |-> c.encrypted,
     kms_key_id |-> c.kms_key_id,
     tags |-> c.tags]

\* the first step with an except clause that prints the error and lets the
\* worker go on, its locals unassigned
load_error_logged(w) ==
    /\ pc[w] = "load"
    /\ \/ /\ captured' = [captured EXCEPT ![w] = read_attributes(config[volume_id(w)])]
          /\ fail' = fail
       \/ /\ fail' = [fail EXCEPT ![w] = [step |-> "load", kind |-> "ClientError"]]
          /\ UNCHANGED captured
    /\ pc' = [pc EXCEPT ![w] = "describe"]
    /\ UNCHANGED <<inputVars, config, create_calls, mainVars, snapshot_id, new_volume_id,
                   cloudVars, auditVars>>

\* lines 164-173: volume.load() and the reads of its attributes
Load(w) ==
    /\ pc[w] = "load"
    /\ \/ /\ captured' = [captured EXCEPT ![w] = read_attributes(config[volume_id(w)])]
          /\ Goto(w, "describe")
       \/ /\ Raise(w, "load", "ClientError")
          /\ UNCHANGED captured
    /\ UNCHANGED <<inputVars, config, create_calls, mainVars, snapshot_id, new_volume_id,
                   cloudVars, auditVars>>

\* someone else changes the attributes of a volume of the instance while
\* the swap runs (ModifyVolume, CreateTags, ...)
ModifyVolume ==
    /\ main_pc = "running"
    /\ \E v \in DOMAIN config, c \in Configs : config' = [config EXCEPT ![v] = c]
    /\ UNCHANGED <<inputVars, mainVars, workerVars, cloudVars, auditVars,
                   captured, create_calls>>

\* lines 175-177: describe_instances(...)["Reservations"][0]["Instances"][0]
Describe(w) ==
    /\ pc[w] = "describe"
    /\ \/ Goto(w, "create_snapshot")
       \/ Raise(w, "describe", "ClientError")
       \/ Raise(w, "describe", "Exception")
    /\ UNCHANGED <<inputVars, configVars, mainVars, snapshot_id, new_volume_id, cloudVars, auditVars>>

\* lines 179-185: ec2.create_snapshot(VolumeId=volume_id)
CreateSnapshot(w) ==
    /\ pc[w] = "create_snapshot"
    /\ \/ LET sid == SnapshotIdOf(Len(snapshots) + 1)
          IN  /\ snapshots' = Append(snapshots,
                     [SnapshotId |-> sid, VolumeId |-> volume_id(w),
                      State |-> "pending", device_name |-> "none"])
              /\ snapshot_id' = [snapshot_id EXCEPT ![w] = sid]
              /\ Goto(w, "wait_snapshot")
       \/ /\ Raise(w, "create_snapshot", "ClientError")
          /\ UNCHANGED <<snapshots, snapshot_id>>
    /\ UNCHANGED <<inputVars, configVars, mainVars, new_volume_id, volumes, attach_calls, auditVars>>

\* the waiter returning whatever the status
waiter_ignores_status(state) == TRUE

\* the snapshot_completed waiter: returns on "completed", raises WaiterError on
\* "error" or when its attempts are used up
snapshot_completed(state) == state = "completed"

\* the snapshot wait with its WaiterError printed and the worker going on
wait_snapshot_error_logged(w) ==
    /\ pc[w] = "wait_snapshot"
    /\ \E st \in {"pending", "completed", "error"} :
         /\ snapshots' = [snapshots EXCEPT ![SnapshotIndex(snapshot_id[w])].State = st]
         /\ fail' = IF snapshot_completed(st)
                    THEN fail
                    ELSE [fail EXCEPT ![w] = [step |-> "wait_snapshot",
                                              kind |-> "WaiterError"]]
    /\ pc' = [pc EXCEPT ![w] = "tag_snapshot"]
    /\ UNCHANGED <<inputVars, configVars, mainVars, snapshot_id, new_volume_id, volumes,
                   attach_calls, auditVars>>

\* the snapshot wait polling without a limit: it returns only once the
\* snapshot is completed
wait_snapshot_unbounded(w) ==
    /\ pc[w] = "wait_snapshot"
    /\ SnapshotOf(snapshot_id[w]).State = "completed"
    /\ Goto(w, "tag_snapshot")
    /\ UNCHANGED <<inputVars, configVars, mainVars, snapshot_id, new_volume_id, cloudVars, auditVars>>

\* line 186: ec2.get_waiter("snapshot_completed").wait(SnapshotIds=[snapshot_id])
WaitSnapshot(w) ==
    /\ pc[w] = "wait_snapshot"
    /\ \E st \in {"pending", "completed", "error"} :
         /\ snapshots' = [snapshots EXCEPT ![SnapshotIndex(snapshot_id[w])].State = st]
         /\ IF snapshot_completed(st)
            THEN Goto(w, "tag_snapshot")
            ELSE Raise(w, "wait_snapshot", "WaiterError")
    /\ UNCHANGED <<inputVars, configVars, mainVars, snapshot_id, new_volume_id, volumes,
                   attach_calls, auditVars>>

\* lines 189-200: ec2.create_tags(Resources=[snapshot_id], Tags=snapshot_tags)
TagSnapshot(w) ==
    /\ pc[w] = "tag_snapshot"
    /\ \/ /\ snapshots' = [snapshots EXCEPT
                 ![SnapshotIndex(snapshot_id[w])].device_name = device_name(w)]
          /\ Goto(w, "record_old")
       \/ /\ Raise(w, "tag_snapshot", "ClientError")
          /\ UNCHANGED snapshots
    /\ UNCHANGED <<inputVars, configVars, mainVars, snapshot_id, new_volume_id, volumes,
                   attach_calls, auditVars>>

\* the except clause of a record function re-raising what it caught
audit_write_raises(w, table, step, next) ==
    /\ audit_errors' = audit_errors \cup {<<w, table>>}
    /\ Raise(w, step, "Exception")

\* lines 77-78 and 100-101: the exception of put_item is printed and the
\* record function returns
audit_write_failed(w, table, step, next) ==
    /\ audit_errors' = audit_errors \cup {<<w, table>>}
    /\ Goto(w, next)

\* Table.put_item: the item replaces the one with its key, if any
put_item(table, key, item) == {r \in table : r[key] # item[key]} \cup {item}

\* the item built from a snapshot id shared by the workers (the last one
\* any worker was given) instead of the worker's local
old_item_shared_snapshot(w) ==
    [old_volume_id |-> volume_id(w),
     name |-> <<"O", "L", "D", "-">> \o volume_id(w),
     devicename |-> device_name(w),
     size |-> captured[w].size,
     iops |-> captured[w].iops,
     throughput |-> captured[w].throughput,
     snapshotid |-> snapshots[Len(snapshots)].SnapshotId]

\* lines 62-75: the item record_old_volume puts
old_item(w) ==
    [old_volume_id |-> volume_id(w),
     name |-> <<"O", "L", "D", "-">> \o volume_id(w),
     devicename |-> device_name(w),
     size |-> captured[w].size,
     iops |-> captured[w].iops,
     throughput |-> captured[w].throughput,
     snapshotid |-> snapshot_id[w]]

\* line 201, lines 60-78: record_old_volume; an exception is printed, not raised
RecordOld(w) ==
    /\ pc[w] = "record_old"
    /\ \/ /\ old_table' = put_item(old_table, "old_volume_id", old_item(w))
          /\ Goto(w, "create_volume")
          /\ UNCHANGED audit_errors
       \/ /\ audit_write_failed(w, "old", "record_old", "create_volume")
          /\ UNCHANGED old_table
    /\ UNCHANGED <<inputVars, configVars, mainVars, snapshot_id, new_volume_id, cloudVars, new_table>>

NewVolumeCount == Cardinality(DOMAIN volumes) - Len(mappings)

\* the attributes fetched again when the replacement is provisioned
attributes_reread(w) == read_attributes(config[volume_id(w)])

\* lines 166-173: the locals; nothing between load() and create_volume
\* assigns them or loads the volume again
attributes(w) == captured[w]

Recreated == <<"R", "e", "c", "r", "e", "a", "t", "e", "d", "-">>

\* lines 203-222: the arguments of create_volume
create_volume_request(w) ==
    LET c == attributes(w)
    IN  [SnapshotId |-> snapshot_id[w],
         AvailabilityZone |-> c.availability_zone,
         VolumeType |-> c.volume_type,
         Encrypted |-> c.encrypted,
         Iops |-> c.iops,
         Throughput |-> c.throughput,
         Size |-> c.size,
         KmsKeyId |-> c.kms_key_id,
         Tags |-> merge_tags(c.tags,
                     <<Tag("Name", Recreated \o volume_id(w)),
                       Tag("SourceSnapshot", snapshot_id[w])>>)]

\* lines 203-223: ec2.create_volume(SnapshotId=snapshot_id, ...)
CreateVolume(w) ==
    /\ pc[w] = "create_volume"
    /\ \/ LET nid == NewVolumeIdOf(NewVolumeCount + 1)
          IN  /\ volumes' = volumes @@
                     (nid :> [State |-> "creating", Device |-> "none",
                              Snapshot |-> snapshot_id[w], Name |-> None])
              /\ create_calls' = create_calls \cup {create_volume_request(w)}
              /\ new_volume_id' = [new_volume_id EXCEPT ![w] = nid]
              /\ Goto(w, "wait_volume")
       \/ /\ Raise(w, "create_volume", "ClientError")
          /\ UNCHANGED <<volumes, new_volume_id, create_calls>>
    /\ UNCHANGED <<inputVars, config, captured, mainVars, snapshot_id, snapshots,
                   attach_calls, auditVars>>

\* the volume_available waiter: returns on "available", raises WaiterError when
\* its attempts are used up
volume_available(state) == state = "available"

\* line 224: ec2.get_waiter("volume_available").wait(VolumeIds=[new_volume_id])
WaitVolume(w) ==
    /\ pc[w] = "wait_volume"
    /\ \E st \in {"creating", "available"} :
         /\ volumes' = [volumes EXCEPT ![new_volume_id[w]].State = st]
         /\ IF volume_available(st)
            THEN Goto(w, "record_new")
            ELSE Raise(w, "wait_volume", "WaiterError")
    /\ UNCHANGED <<inputVars, configVars, mainVars, snapshot_id, new_volume_id, snapshots,
                   attach_calls, auditVars>>

\* the item with the old volume's id where the snapshot's belongs
new_item_wrong_snapshot(w) ==
    [new_volume |-> new_volume_id[w],
     source_snapshot |-> volume_id(w),
     devicename |-> device_name(w),
     size |-> captured[w].size,
     iops |-> captured[w].iops,
     throughput |-> captured[w].throughput,
     volume_type |-> captured[w].volume_type,
     availability_zone |-> captured[w].availability_zone]

\* lines 83-97: the item record_new_volume puts
new_item(w) ==
    [new_volume |-> new_volume_id[w],
     source_snapshot |-> snapshot_id[w],
     devicename |-> device_name(w),
     size |-> captured[w].size,
     iops |-> captured[w].iops,
     throughput |-> captured[w].throughput,
     volume_type |-> captured[w].volume_type,
     availability_zone |-> captured[w].availability_zone]

\* lines 227-228, lines 80-101: record_new_volume; an exception is printed, not raised
RecordNew(w) ==
    /\ pc[w] = "record_new"
    /\ \/ /\ new_table' = put_item(new_table, "new_volume", new_item(w))
          /\ Goto(w, "detach")
          /\ UNCHANGED audit_errors
       \/ /\ audit_write_failed(w, "new", "record_new", "detach")
          /\ UNCHANGED new_table
    /\ UNCHANGED <<inputVars, configVars, mainVars, snapshot_id, new_volume_id, cloudVars, old_table>>

\* line 231: ec2.detach_volume(VolumeId=volume_id, InstanceId=INSTANCE_ID, Force=True)
Detach(w) ==
    /\ pc[w] = "detach"
    /\ \/ /\ volumes' = [volumes EXCEPT ![volume_id(w)].State = "detaching"]
          /\ Goto(w, "wait_detach")
       \/ /\ Raise(w, "detach", "ClientError")
          /\ UNCHANGED volumes
    /\ UNCHANGED <<inputVars, configVars, mainVars, snapshot_id, new_volume_id, snapshots,
                   attach_calls, auditVars>>

\* the old volume's wait left out
detached_unchecked(state) == TRUE

\* line 232: the volume_available waiter on the old volume
old_volume_detached(state) == volume_available(state)

\* line 232: ec2.get_waiter("volume_available").wait(VolumeIds=[volume_id])
WaitDetach(w) ==
    /\ pc[w] = "wait_detach"
    /\ \E st \in {"detaching", "available"} :
         /\ volumes' = [volumes EXCEPT
                ![volume_id(w)].State = st,
                ![volume_id(w)].Device = IF st = "available" THEN "none" ELSE @]
         /\ IF old_volume_detached(st)
            THEN Goto(w, "attach")
            ELSE Raise(w, "wait_detach", "WaiterError")
    /\ UNCHANGED <<inputVars, configVars, mainVars, snapshot_id, new_volume_id, snapshots,
                   attach_calls, auditVars>>

\* an attach at a device other than the worker's
attach_device_other(w) ==
    CHOOSE d \in Devices \ EXCLUDE_DEVICES : d # device_name(w)

\* line 239: Device=device_name
attach_device(w) == device_name(w)

\* the attach step putting the old volume back when attach_volume is rejected
attach_or_rollback(w) ==
    /\ pc[w] = "attach"
    /\ attach_calls' = attach_calls \cup
           {[VolumeId |-> new_volume_id[w], Device |-> attach_device(w)]}
    /\ \/ /\ volumes' = [volumes EXCEPT
                 ![new_volume_id[w]].State = "in-use",
                 ![new_volume_id[w]].Device = attach_device(w)]
          /\ Goto(w, "tag_old")
       \/ /\ Raise(w, "attach", "ClientError")
          /\ volumes' = [volumes EXCEPT
                 ![volume_id(w)].State = "in-use",
                 ![volume_id(w)].Device = device_name(w)]
    /\ UNCHANGED <<inputVars, configVars, mainVars, snapshot_id, new_volume_id, snapshots, auditVars>>

\* the attach step going on to the retire tag whatever attach_volume said
attach_unchecked(w) ==
    /\ pc[w] = "attach"
    /\ attach_calls' = attach_calls \cup
           {[VolumeId |-> new_volume_id[w], Device |-> attach_device(w)]}
    /\ \/ volumes' = [volumes EXCEPT
              ![new_volume_id[w]].State = "in-use",
              ![new_volume_id[w]].Device = attach_device(w)]
       \/ UNCHANGED volumes
    /\ Goto(w, "tag_old")
    /\ UNCHANGED <<inputVars, configVars, mainVars, snapshot_id, new_volume_id, snapshots, auditVars>>

\* lines 236-240: ec2.attach_volume(VolumeId=new_volume_id, Device=device_name)
Attach(w) ==
    /\ pc[w] = "attach"
    /\ attach_calls' = attach_calls \cup
           {[VolumeId |-> new_volume_id[w], Device |-> attach_device(w)]}
    /\ \/ /\ volumes' = [volumes EXCEPT
                 ![new_volume_id[w]].State = "in-use",
                 ![new_volume_id[w]].Device = attach_device(w)]
          /\ Goto(w, "tag_old")
       \/ /\ Raise(w, "attach", "ClientError")
          /\ UNCHANGED volumes
    /\ UNCHANGED <<inputVars, configVars, mainVars, snapshot_id, new_volume_id, snapshots, auditVars>>

\* lines 241-245: ec2.create_tags(Resources=[volume_id], Name=OLD-<volume_id>)
TagOld(w) ==
    /\ pc[w] = "tag_old"
    /\ \/ /\ volumes' = [volumes EXCEPT
                 ![volume_id(w)].Name = <<"O", "L", "D", "-">> \o volume_id(w)]
          /\ Goto(w, "SUCCESS")
       \/ /\ Raise(w, "tag_old", "ClientError")
          /\ UNCHANGED volumes
    /\ UNCHANGED <<inputVars, configVars, mainVars, snapshot_id, new_volume_id, snapshots,
                   attach_calls, auditVars>>

----------------------------------------------------------------------------
(* The specifications. *)

\* line 282: the pool runs snapshot_and_swap for every volume, each worker
\* taking its next step whenever it is scheduled
Next ==
    \/ Locate
    \/ \E w \in Workers : Load(w)
    \/ \E w \in Workers : Describe(w)
    \/ \E w \in Workers : CreateSnapshot(w)
    \/ \E w \in Workers : WaitSnapshot(w)
    \/ \E w \in Workers : TagSnapshot(w)
    \/ \E w \in Workers : RecordOld(w)
    \/ \E w \in Workers : CreateVolume(w)
    \/ \E w \in Workers : WaitVolume(w)
    \/ \E w \in Workers : RecordNew(w)
    \/ \E w \in Workers : Detach(w)
    \/ \E w \in Workers : WaitDetach(w)
    \/ \E w \in Workers : Attach(w)
    \/ \E w \in Workers : TagOld(w)
    \/ Join

\* a whole run
Spec == Init /\ [][Next]_vars

\* the locator alone, over every filter up to MaxCsvLen
SpecLocate == InitLocate /\ [][Locate]_vars

\* merge_tags alone, over every pair of tag lists up to MaxTags
SpecTags == InitTags /\ [][MergeTags]_vars

\* the steps of the thread that runs worker w
WorkerStep(w) ==
    /\ w \in Workers
    /\ \/ Load(w)
       \/ Describe(w)
       \/ CreateSnapshot(w)
       \/ WaitSnapshot(w)
       \/ TagSnapshot(w)
       \/ RecordOld(w)
       \/ CreateVolume(w)
       \/ WaitVolume(w)
       \/ RecordNew(w)
       \/ Detach(w)
       \/ WaitDetach(w)
       \/ Attach(w)
       \/ TagOld(w)

\* every thread is scheduled again and again: the main thread, and each
\* pool thread (the pool has one per volume, line 281); every remote call
\* returns or raises, every waiter gives up after its attempts
Fairness ==
    /\ WF_vars(Locate)
    /\ WF_vars(Join)
    /\ \A w \in 1..MaxMappings : WF_vars(WorkerStep(w))

\* a whole run on one volume whose attributes are changed under it
NextConfig == Next \/ ModifyVolume

SpecConfig == InitConfig /\ [][NextConfig]_vars

\* a whole run with every thread scheduled fairly
SpecLive == InitLive /\ [][Next]_vars /\ Fairness

----------------------------------------------------------------------------
(* What the claims speak of. *)

\* worker w has issued the call named step (it returned or raised)
Called(w, step) ==
    IF pc[w] = "FAILED"
    THEN StepIndex(fail[w].step) >= StepIndex(step)
    ELSE StepIndex(pc[w]) > StepIndex(step)

\* EC2 has received worker w's attach_volume request
AttachIssued(w) ==
    /\ new_volume_id[w] # None
    /\ \E c \in attach_calls : c.VolumeId = new_volume_id[w]

\* the device the instance had the worker's volume at when main() started
StartDevice(w) ==
    LET i == CHOOSE k \in 1..Len(mappings) :
                 mappings[k].VolumeId = all_volumes[w].volume_id
    IN  mappings[i].DeviceName

----------------------------------------------------------------------------
(* C1: when main() has ended, the exit code is 1 if some worker failed and  *)
(* is 0 only if every worker reached its success state (or there was no    *)
(* eligible volume).                                                       *)
C1_ExitCodeReflectsFailure ==
    main_pc = "done" =>
        /\ (\E w \in Workers : pc[w] = "FAILED") => exit_code = 1
        /\ exit_code = 0 => \A w \in Workers : pc[w] = "SUCCESS"

(* C2: once one worker is FAILED, no sibling worker takes a further step    *)
(* (no remote call, no audit write): the run stops at the first failure.   *)
C2_FailFast ==
    [][\A w \in Workers : pc[w] = "FAILED" =>
          \A v \in Workers \ {w} : pc'[v] = pc[v]]_vars

(* C3: a worker's attach request is issued only with its old volume fully  *)
(* detached ("available", at no device); no two volumes are ever attached  *)
(* at one device; a worker that failed in the detach call or the detach    *)
(* wait has issued no attach request.                                      *)
C3_DetachBeforeAttach ==
    /\ \A w \in Workers :
         AttachIssued(w) =>
             /\ volumes[volume_id(w)].State = "available"
             /\ volumes[volume_id(w)].Device = "none"
    /\ \A v1, v2 \in DOMAIN volumes :
         (v1 # v2 /\ volumes[v1].Device # "none") =>
             volumes[v1].Device # volumes[v2].Device
    /\ \A w \in Workers :
         (pc[w] = "FAILED" /\ fail[w].step \in {"detach", "wait_detach"}) =>
             ~AttachIssued(w)

\* a new volume is attached, its worker's old volume being detached
C3_Witness ==
    \E w \in Workers :
        /\ AttachIssued(w)
        /\ volumes[new_volume_id[w]].State = "in-use"
        /\ volumes[new_volume_id[w]].Device = device_name(w)

(* C4: a worker that has issued create_volume holds a snapshot of its own  *)
(* volume that is completed; every volume made from a snapshot was made    *)
(* from a completed one.                                                   *)
C4_SnapshotCompletedBeforeCreate ==
    /\ \A w \in Workers :
         Called(w, "create_volume") =>
             /\ snapshot_id[w] # None
             /\ SnapshotOf(snapshot_id[w]).State = "completed"
             /\ SnapshotOf(snapshot_id[w]).VolumeId = all_volumes[w].volume_id
    /\ \A v \in DOMAIN volumes :
         volumes[v].Snapshot # None =>
             \E k \in 1..Len(snapshots) :
                 /\ snapshots[k].SnapshotId = volumes[v].Snapshot
                 /\ snapshots[k].State = "completed"

\* a new volume has been provisioned from a worker's snapshot
C4_Witness ==
    \E w \in Workers :
        /\ new_volume_id[w] # None
        /\ volumes[new_volume_id[w]].Snapshot = snapshot_id[w]

(* C5: every attach request names the new volume of a worker and the       *)
(* device that worker's old volume had at START; after a completed swap    *)
(* the new volume is attached at that device.                              *)
C5_DeviceIdentity ==
    /\ \A c \in attach_calls :
         \E w \in Workers :
             /\ new_volume_id[w] = c.VolumeId
             /\ c.Device = all_volumes[w].device_name
             /\ c.Device = StartDevice(w)
    /\ \A w \in Workers :
         pc[w] = "SUCCESS" =>
             /\ volumes[new_volume_id[w]].State = "in-use"
             /\ volumes[new_volume_id[w]].Device = StartDevice(w)

\* a swap has completed
C5_Witness ==
    \E w \in Workers : pc[w] = "SUCCESS" /\ AttachIssued(w)

\* the rows of the audit tables under worker w's keys
BeforeRows(w) == {r \in old_table : r.old_volume_id = all_volumes[w].volume_id}
AfterRows(w) == {r \in new_table : r.new_volume = new_volume_id[w]}

(* C6, as claimed: after a successful swap there is exactly one before-row *)
(* under the old volume id and exactly one after-row under the new volume  *)
(* id, with the same snapshot id and device name, audit writes failing or  *)
(* not.                                                                    *)
C6_ExactlyOneRowEach ==
    \A w \in Workers :
        pc[w] = "SUCCESS" =>
            /\ Cardinality(BeforeRows(w)) = 1
            /\ Cardinality(AfterRows(w)) = 1
            /\ \A b \in BeforeRows(w), a \in AfterRows(w) :
                   /\ b.snapshotid = a.source_snapshot
                   /\ b.devicename = a.devicename

(* C6, amended: after a successful swap each table holds, under the        *)
(* worker's key, exactly one row if that audit write succeeded and none if *)
(* it failed; every such row carries the worker's snapshot id and device   *)
(* name, so two written rows agree on both.                                *)
C6_OneRowPerSuccessfulWrite ==
    \A w \in Workers :
        pc[w] = "SUCCESS" =>
            /\ Cardinality(BeforeRows(w)) =
                   (IF <<w, "old">> \in audit_errors THEN 0 ELSE 1)
            /\ Cardinality(AfterRows(w)) =
                   (IF <<w, "new">> \in audit_errors THEN 0 ELSE 1)
            /\ \A b \in BeforeRows(w) :
                   /\ b.snapshotid = snapshot_id[w]
                   /\ b.devicename = all_volumes[w].device_name
            /\ \A a \in AfterRows(w) :
                   /\ a.source_snapshot = snapshot_id[w]
                   /\ a.devicename = all_volumes[w].device_name

\* a swap has completed with both of its rows written
C6_Witness ==
    \E w \in Workers :
        /\ pc[w] = "SUCCESS"
        /\ Cardinality(BeforeRows(w)) = 1
        /\ Cardinality(AfterRows(w)) = 1

(* C7: a worker whose snapshot wait raised is FAILED, has provisioned no   *)
(* volume from its snapshot, has no before-row and no after-row, and has   *)
(* issued neither detach nor attach: its old volume is in use at its       *)
(* device.                                                                 *)
C7_SnapshotTimeoutStopsWorker ==
    \A w \in Workers :
        fail[w].step = "wait_snapshot" =>
            /\ pc[w] = "FAILED"
            /\ fail[w].kind = "WaiterError"
            /\ new_volume_id[w] = None
            /\ \A v \in DOMAIN volumes : volumes[v].Snapshot # snapshot_id[w]
            /\ BeforeRows(w) = {}
            /\ \A r \in new_table : r.source_snapshot # snapshot_id[w]
            /\ volumes[all_volumes[w].volume_id].State = "in-use"
            /\ volumes[all_volumes[w].volume_id].Device = StartDevice(w)
            /\ \A c \in attach_calls : c.Device # all_volumes[w].device_name

\* a snapshot wait has used up its attempts, the snapshot still pending
C7_Witness ==
    \E w \in Workers :
        /\ fail[w].step = "wait_snapshot"
        /\ SnapshotOf(snapshot_id[w]).State = "pending"

(* C8: a worker whose audit write failed has gone on to the call after it; *)
(* no worker is FAILED at an audit write.                                  *)
C8_AuditFailureNotFatal ==
    \A w \in Workers :
        /\ <<w, "old">> \in audit_errors => Called(w, "record_old")
        /\ <<w, "new">> \in audit_errors => Called(w, "record_new")
        /\ pc[w] = "FAILED" => fail[w].step \notin {"record_old", "record_new"}

\* a swap has completed although both of its audit writes failed
C8_Witness ==
    \E w \in Workers :
        /\ pc[w] = "SUCCESS"
        /\ <<w, "old">> \in audit_errors
        /\ <<w, "new">> \in audit_errors

(* C9: no volume the locator returns, and so no volume a worker is         *)
(* launched for, is at /dev/sda1 or /dev/xvda.                             *)
C9_NoExcludedDevice ==
    /\ \A i \in 1..Len(all_volumes) :
         all_volumes[i].device_name \notin {"/dev/sda1", "/dev/xvda"}
    /\ main_pc = "running" => DOMAIN pc = 1..Len(all_volumes)

\* the filter names the volume at a root device, and volumes were returned
C9_Witness ==
    /\ lookup = "ok"
    /\ all_volumes # <<>>
    /\ use_filter(volume_ids_csv)
    /\ \E i \in 1..Len(mappings) :
         /\ mappings[i].DeviceName \in {"/dev/sda1", "/dev/xvda"}
         /\ mappings[i].VolumeId \in SeqToSet(parse_volume_ids(volume_ids_csv))

\* every attachment at a device outside the exclusion set, in attachment order
NotExcludedRefs ==
    LET kept == SelectSeq(mappings,
                    LAMBDA mp : mp.DeviceName \notin {"/dev/sda1", "/dev/xvda"})
    IN  [i \in 1..Len(kept) |->
            [volume_id |-> kept[i].VolumeId, device_name |-> kept[i].DeviceName]]

RequestedIds(csv) == SeqToSet(parse_volume_ids(csv))

\* the attachments outside the exclusion set whose volume is asked for, in
\* attachment order
RequestedRefs(csv) ==
    LET kept == SelectSeq(mappings,
                    LAMBDA mp : /\ mp.DeviceName \notin {"/dev/sda1", "/dev/xvda"}
                                /\ mp.VolumeId \in RequestedIds(csv))
    IN  [i \in 1..Len(kept) |->
            [volume_id |-> kept[i].VolumeId, device_name |-> kept[i].DeviceName]]

(* C11: with a list of ids as the filter (the lookup having succeeded) the *)
(* locator returns the attachments outside the exclusion set whose volume  *)
(* id is in the list, in attachment order, none twice; every filter asking *)
(* for the same set of ids, in any order and with any repeats, gives the   *)
(* same result.                                                            *)
C11_FilterIsIntersection ==
    (lookup = "ok" /\ use_filter(volume_ids_csv)) =>
        /\ all_volumes = RequestedRefs(volume_ids_csv)
        /\ \A i, j \in 1..Len(all_volumes) :
               i # j => all_volumes[i].volume_id # all_volumes[j].volume_id
        /\ \A other \in Csvs(CsvChars, MaxCsvLen) :
               (use_filter(other) /\ RequestedIds(other) = RequestedIds(volume_ids_csv)) =>
                   locate(mappings, other, TRUE) = all_volumes

\* the filter lists two attached volumes against their attachment order
C11_Witness ==
    /\ lookup = "ok"
    /\ volume_ids_csv = <<"2", "|", "1">>
    /\ Len(all_volumes) = 2
    /\ all_volumes[1].volume_id = <<"1">>

C13_NoCrossAssignment ==
    /\ \A r \in old_table :
         \E w \in Workers :
             /\ r.old_volume_id = all_volumes[w].volume_id
             /\ r.devicename = StartDevice(w)
             /\ r.snapshotid = snapshot_id[w]
             /\ SnapshotOf(r.snapshotid).VolumeId = r.old_volume_id
    /\ \A r \in new_table :
         \E w \in Workers :
             /\ r.new_volume = new_volume_id[w]
             /\ r.devicename = StartDevice(w)
             /\ r.source_snapshot = snapshot_id[w]
             /\ volumes[r.new_volume].Snapshot = r.source_snapshot
             /\ SnapshotOf(r.source_snapshot).VolumeId = all_volumes[w].volume_id
    /\ \A c \in attach_calls :
         \E w \in Workers :
             /\ c.VolumeId = new_volume_id[w]
             /\ c.Device = StartDevice(w)
    /\ \A w, v \in Workers :
         w # v =>
             /\ StartDevice(w) # StartDevice(v)
             /\ snapshot_id[w] # None => snapshot_id[w] # snapshot_id[v]
             /\ new_volume_id[w] # None => new_volume_id[w] # new_volume_id[v]

\* two workers have both completed, the second having been given the first
\* snapshot id and the second new volume id
C13_Witness ==
    /\ Cardinality(Workers) = 2
    /\ \A w \in Workers : pc[w] = "SUCCESS"
    /\ Cardinality(old_table) = 2
    /\ Cardinality(new_table) = 2
    /\ snapshot_id[2] = <<"s", "1">>
    /\ new_volume_id[2] = <<"n", "2">>

\* a tag list read as a mapping: its keys, and for each key its last value
TagKeysOf(tags) == {tags[i].Key : i \in 1..Len(tags)}

TagMapping(tags) ==
    [k \in TagKeysOf(tags) |->
        LET last == CHOOSE i \in 1..Len(tags) :
                        /\ tags[i].Key = k
                        /\ \A j \in (i + 1)..Len(tags) : tags[j].Key # k
        IN  tags[last].Value]

(* C14: the result of merge_tags(base, override) holds each key once, its  *)
(* keys are the keys of base and of override together, a key of override   *)
(* has override's value and any other key has base's value; with override  *)
(* empty, the result is base as a mapping, and merging the result with the *)
(* empty list again gives the same mapping.                                *)
C14_MergeTagsOverrideWins ==
    tag_call.done =>
        LET base == tag_call.base_tags
            override == tag_call.new_tags
            result == tag_call.result
        IN  /\ \A i, j \in 1..Len(result) : i # j => result[i].Key # result[j].Key
            /\ TagKeysOf(result) = TagKeysOf(base) \cup TagKeysOf(override)
            /\ \A k \in TagKeysOf(override) :
                   TagMapping(result)[k] = TagMapping(override)[k]
            /\ \A k \in TagKeysOf(base) \ TagKeysOf(override) :
                   TagMapping(result)[k] = TagMapping(base)[k]
            /\ override = <<>> =>
                   /\ TagMapping(result) = TagMapping(base)
                   /\ TagMapping(merge_tags(result, <<>>)) = TagMapping(result)

\* a merge in which override replaces a value of base and adds a key
C14_Witness ==
    /\ tag_call.done
    /\ tag_call.base_tags = <<Tag("Name", "Old")>>
    /\ tag_call.new_tags = <<Tag("Name", "New"), Tag("Env", "New")>>
    /\ tag_call.result = <<Tag("Name", "New"), Tag("Env", "New")>>

\* the call at which worker w failed, as its place in Steps
FailedAt(w) == StepIndex(fail[w].step)

(* C15: a FAILED worker has undone nothing: its snapshot and the           *)
(* snapshot's tags, its new volume and the audit rows it wrote are still   *)
(* there, and its old volume, once detached, stays detached; after a       *)
(* failure between detach and attach no volume is attached at the device.  *)
C15_NoRollback ==
    \A w \in Workers :
        pc[w] = "FAILED" =>
            /\ FailedAt(w) > StepIndex("create_snapshot") =>
                   \E k \in 1..Len(snapshots) :
                       /\ snapshots[k].SnapshotId = snapshot_id[w]
                       /\ snapshots[k].VolumeId = all_volumes[w].volume_id
            /\ FailedAt(w) > StepIndex("tag_snapshot") =>
                   SnapshotOf(snapshot_id[w]).device_name = all_volumes[w].device_name
            /\ (FailedAt(w) > StepIndex("record_old") /\ <<w, "old">> \notin audit_errors) =>
                   Cardinality(BeforeRows(w)) = 1
            /\ FailedAt(w) > StepIndex("create_volume") =>
                   /\ new_volume_id[w] \in DOMAIN volumes
                   /\ volumes[new_volume_id[w]].Snapshot = snapshot_id[w]
            /\ (FailedAt(w) > StepIndex("record_new") /\ <<w, "new">> \notin audit_errors) =>
                   Cardinality(AfterRows(w)) = 1
            /\ fail[w].step = "wait_detach" =>
                   volumes[all_volumes[w].volume_id].State = "detaching"
            /\ FailedAt(w) > StepIndex("wait_detach") =>
                   /\ volumes[all_volumes[w].volume_id].State = "available"
                   /\ volumes[all_volumes[w].volume_id].Device = "none"
            /\ fail[w].step = "attach" =>
                   /\ \A v \in DOMAIN volumes : volumes[v].Device # StartDevice(w)
                   /\ volumes[new_volume_id[w]].State = "available"
            /\ fail[w].step = "tag_old" =>
                   /\ volumes[new_volume_id[w]].State = "in-use"
                   /\ volumes[new_volume_id[w]].Device = StartDevice(w)

\* attach_volume was rejected after the old volume was detached
C15_Witness ==
    \E w \in Workers :
        /\ pc[w] = "FAILED"
        /\ fail[w].step = "attach"
        /\ volumes[all_volumes[w].volume_id].Device = "none"

(* C16: in every step, a worker in SUCCESS or FAILED stays as it is; a     *)
(* worker that moves either goes to FAILED, recording the call it was at,  *)
(* or goes to the next call of the program order; an exception always      *)
(* moves it to FAILED; and the cloud and the audit tables change only in a *)
(* step of a worker that was not yet in SUCCESS or FAILED.                 *)
C16_WorkerStateMachine ==
    [][/\ \A w \in Workers :
            /\ pc[w] \in {"SUCCESS", "FAILED"} =>
                   /\ pc'[w] = pc[w]
                   /\ fail'[w] = fail[w]
                   /\ snapshot_id'[w] = snapshot_id[w]
                   /\ new_volume_id'[w] = new_volume_id[w]
            /\ pc'[w] # pc[w] =>
                   \/ pc'[w] = "FAILED" /\ fail'[w].step = pc[w]
                   \/ /\ pc'[w] # "FAILED"
                      /\ StepIndex(pc'[w]) = StepIndex(pc[w]) + 1
                      /\ fail'[w] = fail[w]
            /\ fail'[w] # fail[w] => pc'[w] = "FAILED"
       /\ <<cloudVars, auditVars>>' # <<cloudVars, auditVars>> =>
            \E w \in Workers :
                /\ pc[w] \notin {"SUCCESS", "FAILED"}
                /\ pc'[w] # pc[w]
                /\ \A v \in Workers \ {w} : pc'[v] = pc[v]
      ]_vars

\* one worker has failed and another has completed
C16_Witness ==
    \E w, v \in Workers : pc[w] = "FAILED" /\ pc[v] = "SUCCESS"

\* worker w's audit write has returned, with its row written or its error printed
BeforeAttempted(w) == BeforeRows(w) # {} \/ <<w, "old">> \in audit_errors
AfterAttempted(w) ==
    (new_volume_id[w] # None /\ AfterRows(w) # {}) \/ <<w, "new">> \in audit_errors

(* C17: a worker's before-write has returned only with its snapshot        *)
(* completed and tagged, and has returned by the time create_volume is     *)
(* issued; its after-write has returned only with its new volume           *)
(* available, and has returned by the time detach_volume is issued; every  *)
(* after-row is for a new volume that reached available and was made from  *)
(* a completed snapshot.                                                   *)
C17_AuditWriteOrder ==
    /\ \A w \in Workers :
         /\ BeforeAttempted(w) =>
                /\ Called(w, "tag_snapshot")
                /\ fail[w].step # "tag_snapshot"
                /\ SnapshotOf(snapshot_id[w]).State = "completed"
                /\ SnapshotOf(snapshot_id[w]).device_name = all_volumes[w].device_name
         /\ Called(w, "create_volume") => BeforeAttempted(w)
         /\ AfterAttempted(w) =>
                /\ Called(w, "wait_volume")
                /\ fail[w].step # "wait_volume"
                /\ volumes[new_volume_id[w]].State \in {"available", "in-use"}
         /\ Called(w, "detach") => AfterAttempted(w)
    /\ \A r \in new_table :
         /\ r.new_volume \in DOMAIN volumes
         /\ volumes[r.new_volume].State \in {"available", "in-use"}
         /\ volumes[r.new_volume].Snapshot = r.source_snapshot
         /\ SnapshotOf(r.source_snapshot).State = "completed"

\* both rows of a worker are written and its detach is not yet issued
C17_Witness ==
    \E w \in Workers :
        /\ pc[w] = "detach"
        /\ BeforeRows(w) # {}
        /\ AfterRows(w) # {}

RunEnded ==
    /\ main_pc = "done"
    /\ \A w \in Workers : pc[w] \in {"SUCCESS", "FAILED"}

(* C18: with every thread scheduled fairly, the run ends: main() returns   *)
(* with every worker in SUCCESS or FAILED; and until a worker is there its *)
(* next call can always be taken, whatever its siblings are doing.         *)
C18_Termination ==
    /\ <>RunEnded
    /\ [](\A w \in Workers :
            pc[w] \notin {"SUCCESS", "FAILED"} => ENABLED WorkerStep(w))

\* a run of two workers has ended, one failed at a wait and one completed
C18_Witness ==
    /\ RunEnded
    /\ \E w, v \in Workers :
         /\ pc[w] = "SUCCESS"
         /\ pc[v] = "FAILED"
         /\ fail[v].kind = "WaiterError"

\* the create_volume requests of worker w: those naming its snapshot
RequestsOf(w) == {r \in create_calls : r.SnapshotId = snapshot_id[w]}

\* whatever the request and the rows of worker w say of the source volume
\* is what the worker holds in its locals
CarriesCaptured(w) ==
    LET c == captured[w]
    IN  /\ \A r \in RequestsOf(w) :
             /\ r.Size = c.size
             /\ r.Iops = c.iops
             /\ r.Throughput = c.throughput
             /\ r.VolumeType = c.volume_type
             /\ r.AvailabilityZone = c.availability_zone
             /\ r.Encrypted = c.encrypted
             /\ r.KmsKeyId = c.kms_key_id
             /\ \A i \in 1..Len(c.tags) :
                  c.tags[i].Key \notin {"Name", "SourceSnapshot"} =>
                      \E j \in 1..Len(r.Tags) : r.Tags[j] = c.tags[i]
        /\ \A r \in BeforeRows(w) :
             /\ r.size = c.size
             /\ r.iops = c.iops
             /\ r.throughput = c.throughput
        /\ \A r \in AfterRows(w) :
             /\ r.size = c.size
             /\ r.iops = c.iops
             /\ r.throughput = c.throughput
             /\ r.volume_type = c.volume_type
             /\ r.availability_zone = c.availability_zone

\* the locals of worker w change in its first step only, to the volume's
\* attributes of that moment, an unset iops or throughput read as 0
CapturedAtStart(w) ==
    captured'[w] # captured[w] =>
        LET now == config[volume_id(w)]
            c == captured'[w]
        IN  /\ pc[w] = "load"
            /\ c.size = now.size
            /\ c.iops = (IF now.iops = None THEN 0 ELSE now.iops[1])
            /\ c.throughput = (IF now.throughput = None THEN 0 ELSE now.throughput[1])
            /\ c.volume_type = now.volume_type
            /\ c.availability_zone = now.availability_zone
            /\ c.encrypted = now.encrypted
            /\ c.kms_key_id = now.kms_key_id
            /\ c.tags = now.tags

(* C19: a worker reads the source volume's attributes once, in its first   *)
(* step, an unset iops or throughput as 0, and never again: its            *)
(* create_volume request and its two audit rows carry the values it read   *)
(* then, whatever is done to the volume's attributes meanwhile.            *)
C19_CapturedOnce ==
    /\ [](\A w \in Workers : CarriesCaptured(w))
    /\ [][\A w \in Workers : CapturedAtStart(w)]_vars

\* a worker read a volume with iops unset, the volume was then resized and
\* given iops, and the worker has provisioned and written both rows since
C19_Witness ==
    \E w \in Workers :
        /\ RequestsOf(w) # {}
        /\ BeforeRows(w) # {}
        /\ AfterRows(w) # {}
        /\ captured[w].iops = 0
        /\ config[volume_id(w)].iops = <<3>>
        /\ config[volume_id(w)].size # captured[w].size

\* the value of the Name tag that marks volume v retired (line 243)
RetiredName(v) == <<"O", "L", "D", "-">> \o v

\* worker w's replacement is attached where its volume was
ReplacementAttached(w) ==
    /\ AttachIssued(w)
    /\ volumes[new_volume_id[w]].State = "in-use"
    /\ volumes[new_volume_id[w]].Device = StartDevice(w)

(* C20: a volume is tagged retired (Name = OLD-<its id>) only by a worker  *)
(* whose attach request was accepted: a volume carrying the tag is fully   *)
(* detached and its replacement is attached at its device. A worker is in  *)
(* SUCCESS exactly when it has put the tag; when create_tags is rejected   *)
(* the worker is FAILED, the tag is absent, and the replacement is         *)
(* attached all the same.                                                  *)
C20_RetiredOnlyAfterAttach ==
    \A w \in Workers :
        LET old == volumes[all_volumes[w].volume_id]
        IN  /\ old.Name \in {None, RetiredName(all_volumes[w].volume_id)}
            /\ old.Name # None =>
                   /\ old.State = "available"
                   /\ old.Device = "none"
                   /\ ReplacementAttached(w)
            /\ pc[w] = "SUCCESS" <=> old.Name # None
            /\ (pc[w] = "FAILED" /\ fail[w].step = "tag_old") =>
                   /\ old.Name = None
                   /\ ReplacementAttached(w)

\* of two workers one has retired its volume, the other's create_tags was
\* rejected after its replacement was attached
C20_Witness ==
    \E w, v \in Workers :
        /\ pc[w] = "SUCCESS"
        /\ volumes[all_volumes[w].volume_id].Name = RetiredName(all_volumes[w].volume_id)
        /\ pc[v] = "FAILED"
        /\ fail[v].step = "tag_old"
        /\ fail[v].kind = "ClientError"
        /\ ReplacementAttached(v)

====
